---- MODULE Spec2Model ----
(***************************************************************************)
(* The conversational query pipeline of the SQL assistant (src/app.py):    *)
(* the session state kept across script runs (chat_history, the           *)
(* DatabaseManager's connection, the "db" session key, the settings) and   *)
(* one user turn of main(), split at its collaborator calls (schema read,  *)
(* SQL generation, execution attempts, narrative generation, chart         *)
(* recommendation, chart drawing).                                         *)
(*                                                                         *)
(* Texts are sequences of tokens; " " is a whitespace token.  A script run *)
(* is taken to run to its end (the UI shell runs one at a time).           *)
(***************************************************************************)
EXTENDS Integers, Sequences, FiniteSets, TLC

\* ------------------------------------------------------------- constants
MAX_RETRIES == 3
RETRY_DELAY == 2
SUPPORTED_VISUALIZATIONS == {"bar", "line", "scatter", "pie"}

\* ---------------------------------------------------------------- bounds
\* user turns processed in one session
MaxTurns == 2
\* direct calls of DatabaseManager methods in SpecDb
MaxCalls == 3

\* ------------------------------------------------------- collaborator data
NoDb == 0
Handles == {1, 2}
None == <<>>
NoError == "none"
Absent == "<absent>"

Questions == {<<"q1">>, <<"q2">>}
SqlTexts == {<<"SELECT a">>, <<" ", "prose", " ">>}
NarrativeTexts == {<<"summary">>, <<" ", "summary", " ">>}
DbErrors == {"QueryError", "OperationalError"}
NotInitialized == "Database not initialized"
GenerationError == "GenerationError"
ConnectionErrorMsg == "Failed to connect to database: "

NoResult == [shape |-> "none", id |-> ""]
Results ==
  { [shape |-> "str", id |-> "r1"],
    [shape |-> "list", id |-> "r2"],
    [shape |-> "dict", id |-> "r3"] }

\* what the database collaborator answers to run(): a result or an error
DbReplies ==
  { [ok |-> TRUE, val |-> r, err |-> NoError] : r \in Results } \cup
  { [ok |-> FALSE, val |-> NoResult, err |-> e] : e \in DbErrors }
NoReply == [ok |-> FALSE, val |-> NoResult, err |-> NoError]

\* JSON values the advisor's answer can parse to
JNull == [t |-> "null", viz_type |-> Absent, x_column |-> Absent, y_column |-> Absent, title |-> Absent]
JEmptyObject == [t |-> "object", viz_type |-> Absent, x_column |-> Absent, y_column |-> Absent, title |-> Absent]
JArray == [t |-> "array", viz_type |-> Absent, x_column |-> Absent, y_column |-> Absent, title |-> Absent]
JBar == [t |-> "object", viz_type |-> "bar", x_column |-> "c1", y_column |-> "c2", title |-> "T"]
JNoType == [t |-> "object", viz_type |-> Absent, x_column |-> "c1", y_column |-> "c2", title |-> Absent]
JHistogram == [t |-> "object", viz_type |-> "histogram", x_column |-> "c1", y_column |-> "c2", title |-> "T"]
JsonValues == {JNull, JEmptyObject, JArray, JBar, JNoType, JHistogram}

\* what the text-generation collaborator answers to the chart request:
\* a failure, a text that is not JSON, or a text that is JSON for a value
AdvisorReplies ==
  { [ok |-> FALSE, json |-> FALSE, value |-> JNull],
    [ok |-> TRUE, json |-> FALSE, value |-> JNull] } \cup
  { [ok |-> TRUE, json |-> TRUE, value |-> v] : v \in JsonValues }

\* ----------------------------------------------------------------- state
VARIABLES
  chat_history,   \* st.session_state.chat_history
  dbm_db,         \* st.session_state.db_manager.db
  ss_db,          \* st.session_state.db (NoDb: the key is not in the session)
  enable_viz,     \* st.session_state.enable_viz
  sidebarError,   \* the error create_sidebar showed on the last Connect
  pc,             \* position of main() in the turn
  turns,          \* turns begun in this session
  lastAsk,        \* the last question submitted and whether the gate let it in
  user_query, schema, sqlPrompt, sql_query, attempt, sql_response,
  narrPrompt, response, viz_config,    \* locals of main() in the turn
  trace,          \* the collaborator calls and appends of the turn, in order
  slept,          \* time units slept in the turn
  execErrors,     \* the errors the execution attempts of the turn were given
  dbReply,        \* the database collaborator's last answer to run()
  execOutcome,    \* how the execution step of the turn ended
  genReply,       \* the text the collaborator returned for the SQL prompt
  ranQueries,     \* the texts given to the database collaborator's run()
  turnError,      \* the error the turn's handler showed with st.error
  escaped         \* an error that left main() uncaught

connVars == <<dbm_db, ss_db, sidebarError>>
turnLocals == <<user_query, schema, sqlPrompt, sql_query, attempt, sql_response,
                narrPrompt, response, viz_config>>
turnObs == <<trace, slept, execErrors, dbReply, execOutcome, genReply, ranQueries,
             turnError, escaped>>
vars == <<chat_history, enable_viz, pc, turns, lastAsk, connVars, turnLocals, turnObs>>

\* --------------------------------------------------------------- helpers
HumanMessage(c) == [role |-> "human", content |-> c]
AIMessage(c) == [role |-> "ai", content |-> c]
Greeting == AIMessage(<<"greeting">>)

Count(s, e) == Cardinality({i \in 1..Len(s) : s[i] = e})

RECURSIVE LStrip(_)
LStrip(t) == IF t # <<>> /\ Head(t) = " " THEN LStrip(Tail(t)) ELSE t
RECURSIVE RStrip(_)
RStrip(t) ==
  IF t # <<>> /\ t[Len(t)] = " " THEN RStrip(SubSeq(t, 1, Len(t) - 1)) ELSE t
Strip(t) == RStrip(LStrip(t))

IsComposite(r) == r.shape \in {"list", "dict"}

\* ------------------------------------------------- DatabaseManager (pure)
SchemaOf(h) == IF h = 1 THEN <<"schema1">> ELSE <<"schema2">>

NotInitializedGuard_Never(db) == FALSE

\* get_schema / execute_query: "if not self.db: raise ValueError(...)"
NotInitializedGuard(db) == db = NoDb

\* ---------------------------------------------------- QueryGenerator (pure)
get_sql_chain_BeforeAppend(sch, hist, q) ==
  [schema |-> sch,
   chat_history |-> IF hist = <<>> THEN hist ELSE SubSeq(hist, 1, Len(hist) - 1),
   question |-> q]

\* the SQL prompt embeds the schema, the history as it is now, the question
get_sql_chain(sch, hist, q) == [schema |-> sch, chat_history |-> hist, question |-> q]

NarrErrPrefix == "Error generating response: "
NarrativeReplies ==
  { [ok |-> TRUE, text |-> t, err |-> NoError] : t \in NarrativeTexts } \cup
  { [ok |-> FALSE, text |-> None, err |-> GenerationError] }

\* try: return response.text.strip()  except Exception as e: return f"Error ..."
generate_natural_language_response(reply) ==
  IF reply.ok THEN Strip(reply.text) ELSE <<NarrErrPrefix, reply.err>>

\* json.loads(response.text) of an answer that arrived
json_loads(reply) ==
  IF reply.json THEN [raised |-> NoError, value |-> reply.value]
  ELSE [raised |-> "JSONDecodeError", value |-> JNull]

Returned(v) == [raised |-> NoError, value |-> v]

get_visualization_recommendation_NarrowExcept(reply) ==
  IF ~reply.ok THEN [raised |-> GenerationError, value |-> JNull]
  ELSE IF json_loads(reply).raised # NoError THEN Returned(JNull)
  ELSE Returned(json_loads(reply).value)

\* try: return json.loads(response.text)  except: return None
\* (the bare except catches the collaborator's failure and the parser's)
get_visualization_recommendation(reply) ==
  IF ~reply.ok THEN Returned(JNull)
  ELSE IF json_loads(reply).raised # NoError THEN Returned(JNull)
  ELSE Returned(json_loads(reply).value)

\* Python truth value of a parsed JSON value ("if viz_config:"); arrays of
\* the model are non-empty
Truthy(v) ==
  CASE v.t = "null" -> FALSE
    [] v.t = "object" ->
         \/ v.viz_type # Absent \/ v.x_column # Absent
         \/ v.y_column # Absent \/ v.title # Absent
    [] OTHER -> TRUE

\* ---------------------------------------------------- DataVisualizer (pure)
\* dfOk: pd.DataFrame(data) succeeds; pxOk: the plotly call succeeds.
\* A value without .get raises AttributeError; a viz_type outside the four
\* branches leaves fig unbound at "return fig".
create_visualization(cfg, dfOk, pxOk) ==
  IF ~dfOk THEN "ValueError"
  ELSE IF cfg.t # "object" THEN "AttributeError"
  ELSE LET viz_type == IF cfg.viz_type = Absent THEN "bar" ELSE cfg.viz_type
       IN  IF viz_type \in SUPPORTED_VISUALIZATIONS
             THEN (IF pxOk THEN "ok" ELSE "ValueError")
             ELSE "UnboundLocalError"

\* ------------------------------------------------------------ main (pure)
ResponseText_Stripped(t) == Strip(t)

\* "generate_content(prompt).text": the answer's text, taken as it is
ResponseText(t) == t

GateOpen_NoConnectionCheck(q, db) == q # None

\* "if user_query and "db" in st.session_state"
GateOpen(q, db) == q # None /\ db # NoDb

InRange_OneShort(a) == a < MAX_RETRIES - 1

\* "for attempt in range(MAX_RETRIES)"
InRange(a) == a < MAX_RETRIES

LastAttempt_OffByOne(a) == a = MAX_RETRIES

LastAttempt_Never(a) == FALSE

\* "if attempt == MAX_RETRIES - 1: raise e"
LastAttempt(a) == a = MAX_RETRIES - 1

Sleep_Skipped(t) == t

\* "time.sleep(RETRY_DELAY)": the time slept so far in the turn grows
Sleep(t) == t + RETRY_DELAY

\* "raise e": e is the exception of the attempt that just failed
RaisedError(errs) == errs[Len(errs)]

ShouldRecommend_AnyShape(viz, r) == viz

\* "if st.session_state.enable_viz and isinstance(sql_response, (list, dict))"
ShouldRecommend(viz, r) == viz /\ IsComposite(r)

ErrPrefix == "I encountered an error: "
ErrorTurn(e) == AIMessage(<<ErrPrefix, e>>)

NoOutcome == [kind |-> "none", err |-> NoError]

initialize_session_state_Always(hist) == <<Greeting>>

\* "if "chat_history" not in st.session_state": the greeting is stored on
\* the first run only (a stored history is never empty)
initialize_session_state(hist) == IF hist = <<>> THEN <<Greeting>> ELSE hist

\* ------------------------------------------------------------------ Init
Init ==
  /\ chat_history = initialize_session_state(<<>>)
  /\ dbm_db = NoDb
  /\ ss_db = NoDb
  /\ enable_viz = TRUE
  /\ sidebarError = NoError
  /\ pc = "Idle"
  /\ turns = 0
  /\ lastAsk = [question |-> None, admitted |-> FALSE]
  /\ user_query = None
  /\ schema = None
  /\ sqlPrompt = get_sql_chain(None, <<>>, None)
  /\ sql_query = None
  /\ attempt = 0
  /\ sql_response = NoResult
  /\ narrPrompt = [sql_query |-> None, schema |-> None, sql_response |-> NoResult]
  /\ response = None
  /\ viz_config = JNull
  /\ trace = <<>>
  /\ slept = 0
  /\ execErrors = <<>>
  /\ dbReply = NoReply
  /\ execOutcome = NoOutcome
  /\ genReply = None
  /\ ranQueries = <<>>
  /\ turnError = NoError
  /\ escaped = NoError

\* every script run starts main() afresh: its locals are unset, nothing has
\* been called yet and no error is shown
FreshRun(q, evs) ==
  /\ user_query' = q
  /\ schema' = None
  /\ sqlPrompt' = get_sql_chain(None, <<>>, None)
  /\ sql_query' = None
  /\ attempt' = 0
  /\ sql_response' = NoResult
  /\ narrPrompt' = [sql_query |-> None, schema |-> None, sql_response |-> NoResult]
  /\ response' = None
  /\ viz_config' = JNull
  /\ trace' = evs
  /\ slept' = 0
  /\ execErrors' = <<>>
  /\ dbReply' = NoReply
  /\ execOutcome' = NoOutcome
  /\ genReply' = None
  /\ ranQueries' = <<>>
  /\ turnError' = NoError
  /\ escaped' = NoError

\* --------------------------------------------------------------- sidebar
\* the session key stored only after the schema was shown
Connect_KeyAfterSchema ==
  /\ pc = "Idle"
  /\ \E h \in Handles, ok \in BOOLEAN, schemaOk \in BOOLEAN :
       IF ok
         THEN /\ dbm_db' = h
              /\ ss_db' = IF schemaOk THEN h ELSE ss_db
              /\ sidebarError' = IF schemaOk THEN NoError ELSE "OperationalError"
         ELSE /\ sidebarError' = ConnectionErrorMsg
              /\ UNCHANGED <<dbm_db, ss_db>>
  /\ FreshRun(None, <<>>)
  /\ chat_history' = initialize_session_state(chat_history)
  /\ UNCHANGED <<enable_viz, pc, turns, lastAsk>>

\* create_sidebar, the Connect button: init_database, then the schema shown
Connect ==
  /\ pc = "Idle"
  /\ \E h \in Handles, ok \in BOOLEAN, schemaOk \in BOOLEAN :
       IF ok
         THEN /\ dbm_db' = h
              /\ ss_db' = h
              /\ sidebarError' = IF schemaOk THEN NoError ELSE "OperationalError"
         ELSE /\ sidebarError' = ConnectionErrorMsg
              /\ UNCHANGED <<dbm_db, ss_db>>
  /\ FreshRun(None, <<>>)
  /\ chat_history' = initialize_session_state(chat_history)
  /\ UNCHANGED <<enable_viz, pc, turns, lastAsk>>

\* the "Enable visualizations" checkbox
ToggleViz ==
  /\ pc = "Idle"
  /\ enable_viz' = ~enable_viz
  /\ sidebarError' = NoError
  /\ FreshRun(None, <<>>)
  /\ chat_history' = initialize_session_state(chat_history)
  /\ UNCHANGED <<pc, turns, lastAsk, dbm_db, ss_db>>

\* ------------------------------------------------------- the turn's ends
HandlerExcept_SilentDrop(e, evs) ==
  /\ turnError' = e
  /\ trace' = trace \o evs
  /\ pc' = "Idle"
  /\ UNCHANGED <<chat_history, escaped>>

HandlerExcept_Reraise(e, evs) ==
  /\ escaped' = e
  /\ trace' = trace \o evs
  /\ pc' = "Idle"
  /\ UNCHANGED <<chat_history, turnError>>

\* "except Exception as e": st.error, then the error turn is appended
HandlerExcept(e, evs) ==
  /\ turnError' = e
  /\ chat_history' = Append(chat_history, ErrorTurn(e))
  /\ trace' = trace \o evs \o <<"ai_error">>
  /\ pc' = "Idle"
  /\ UNCHANGED escaped

\* the successful path without its final append
FinishTurn_NoAppend(resp, evs) ==
  /\ trace' = trace \o evs \o <<"ai">>
  /\ pc' = "Idle"
  /\ UNCHANGED <<chat_history, turnError, escaped>>

\* "st.session_state.chat_history.append(AIMessage(content=response))"
FinishTurn(resp, evs) ==
  /\ chat_history' = Append(chat_history, AIMessage(resp))
  /\ trace' = trace \o evs \o <<"ai">>
  /\ pc' = "Idle"
  /\ UNCHANGED <<turnError, escaped>>

\* ------------------------------------------------------------------ turn
\* a question is submitted: the gate, then the Human turn is appended
Ask ==
  /\ pc = "Idle"
  /\ \E q \in Questions :
       IF GateOpen(q, ss_db)
         THEN /\ turns < MaxTurns
              /\ lastAsk' = [question |-> q, admitted |-> TRUE]
              /\ chat_history' = Append(initialize_session_state(chat_history),
                                         HumanMessage(q))
              /\ turns' = turns + 1
              /\ pc' = "ReadSchema"
              /\ FreshRun(q, <<"human">>)
         ELSE /\ lastAsk' = [question |-> q, admitted |-> FALSE]
              /\ FreshRun(q, <<>>)
              /\ chat_history' = initialize_session_state(chat_history)
              /\ UNCHANGED <<pc, turns>>
  /\ sidebarError' = NoError
  /\ UNCHANGED <<enable_viz, dbm_db, ss_db>>

\* "schema = st.session_state.db_manager.get_schema()"
ReadSchema ==
  /\ pc = "ReadSchema"
  /\ IF NotInitializedGuard(dbm_db)
       THEN /\ HandlerExcept(NotInitialized, <<>>)
            /\ UNCHANGED schema
       ELSE \E ok \in BOOLEAN :
              IF ok
                THEN /\ schema' = SchemaOf(dbm_db)
                     /\ trace' = Append(trace, "schema_ok")
                     /\ pc' = "GenerateSQL"
                     /\ UNCHANGED <<chat_history, turnError, escaped>>
                ELSE /\ HandlerExcept("OperationalError", <<"schema_fail">>)
                     /\ UNCHANGED schema
  /\ UNCHANGED <<enable_viz, turns, lastAsk, connVars, user_query, sqlPrompt,
                 sql_query, attempt, sql_response, narrPrompt, response,
                 viz_config, slept, execErrors, dbReply, execOutcome,
                 genReply, ranQueries>>

\* the prompt is built, then "model.generate_content(prompt).text"
GenerateSQL ==
  /\ pc = "GenerateSQL"
  /\ sqlPrompt' = get_sql_chain(schema, chat_history, user_query)
  /\ \E ok \in BOOLEAN :
       IF ok
         THEN /\ \E s \in SqlTexts :
                   /\ genReply' = s
                   /\ sql_query' = ResponseText(s)
              /\ trace' = Append(trace, "gen_ok")
              /\ pc' = "Execute"
              /\ UNCHANGED <<chat_history, turnError, escaped>>
         ELSE /\ HandlerExcept(GenerationError, <<"gen_fail">>)
              /\ UNCHANGED <<sql_query, genReply>>
  /\ UNCHANGED <<enable_viz, turns, lastAsk, connVars, user_query, schema,
                 attempt, sql_response, narrPrompt, response, viz_config,
                 slept, execErrors, dbReply, execOutcome, ranQueries>>

\* a retry loop with no bound on the attempts: a failed attempt is simply
\* tried again
Execute_RetryForever ==
  /\ pc = "Execute"
  /\ \E reply \in DbReplies :
       /\ dbReply' = reply
       /\ IF reply.ok
            THEN /\ sql_response' = reply.val
                 /\ execOutcome' = [kind |-> "returned", err |-> NoError]
                 /\ trace' = Append(trace, "run_ok")
                 /\ ranQueries' = Append(ranQueries, sql_query)
                 /\ pc' = "Summarize"
            ELSE UNCHANGED <<sql_response, execOutcome, trace, ranQueries, pc>>
  /\ UNCHANGED <<chat_history, enable_viz, turns, lastAsk, connVars, user_query,
                 schema, sqlPrompt, sql_query, attempt, narrPrompt, response,
                 viz_config, slept, execErrors, genReply, turnError, escaped>>

\* one pass of the retry loop: execute_query, break / raise / sleep
Execute ==
  /\ pc = "Execute"
  /\ \E reply \in (IF NotInitializedGuard(dbm_db)
                     THEN {[ok |-> FALSE, val |-> NoResult, err |-> NotInitialized]}
                     ELSE DbReplies) :
       /\ dbReply' = IF NotInitializedGuard(dbm_db) THEN dbReply ELSE reply
       /\ ranQueries' = IF NotInitializedGuard(dbm_db) THEN ranQueries
                         ELSE Append(ranQueries, sql_query)
       /\ IF reply.ok
            THEN /\ sql_response' = reply.val
                 /\ execOutcome' = [kind |-> "returned", err |-> NoError]
                 /\ trace' = Append(trace, "run_ok")
                 /\ pc' = "Summarize"
                 /\ UNCHANGED <<chat_history, attempt, slept, execErrors, turnError, escaped>>
            ELSE LET errs == Append(execErrors, reply.err)
                     ev == IF NotInitializedGuard(dbm_db) THEN "not_initialized" ELSE "run_fail"
                 IN  /\ execErrors' = errs
                     /\ UNCHANGED sql_response
                     /\ IF LastAttempt(attempt)
                          THEN /\ execOutcome' = [kind |-> "raised", err |-> RaisedError(errs)]
                               /\ HandlerExcept(RaisedError(errs), <<ev>>)
                               /\ UNCHANGED <<attempt, slept>>
                          ELSE /\ slept' = Sleep(slept)
                               /\ attempt' = attempt + 1
                               /\ trace' = trace \o <<ev, "sleep">>
                               /\ pc' = IF InRange(attempt + 1) THEN "Execute" ELSE "Summarize"
                               /\ UNCHANGED <<chat_history, execOutcome, turnError, escaped>>
  /\ UNCHANGED <<enable_viz, turns, lastAsk, connVars, user_query, schema,
                 sqlPrompt, sql_query, narrPrompt, response, viz_config, genReply>>

\* generate_natural_language_response, then the visualization decision
Summarize ==
  /\ pc = "Summarize"
  /\ IF sql_response = NoResult
       THEN /\ HandlerExcept("UnboundLocalError", <<>>)
            /\ UNCHANGED <<narrPrompt, response>>
       ELSE \E reply \in NarrativeReplies :
              LET resp == generate_natural_language_response(reply)
                  ev == IF reply.ok THEN "narr_ok" ELSE "narr_fail"
              IN  /\ narrPrompt' = [sql_query |-> sql_query, schema |-> schema,
                                    sql_response |-> sql_response]
                  /\ response' = resp
                  /\ IF ShouldRecommend(enable_viz, sql_response)
                       THEN /\ trace' = Append(trace, ev)
                            /\ pc' = "Recommend"
                            /\ UNCHANGED <<chat_history, turnError, escaped>>
                       ELSE FinishTurn(resp, <<ev>>)
  /\ UNCHANGED <<enable_viz, turns, lastAsk, connVars, user_query, schema,
                 sqlPrompt, sql_query, attempt, sql_response, viz_config,
                 slept, execErrors, dbReply, execOutcome, genReply, ranQueries>>

\* get_visualization_recommendation, then "if viz_config:"
Recommend ==
  /\ pc = "Recommend"
  /\ \E reply \in AdvisorReplies :
       LET out == get_visualization_recommendation(reply)
           cfg == out.value
           ev == IF ~reply.ok THEN "advise_fail"
                 ELSE IF ~reply.json THEN "advise_nonjson" ELSE "advise_json"
       IN  IF out.raised # NoError
             THEN /\ HandlerExcept(out.raised, <<ev>>)
                  /\ UNCHANGED viz_config
             ELSE /\ viz_config' = cfg
                  /\ IF Truthy(cfg)
                       THEN /\ trace' = Append(trace, ev)
                            /\ pc' = "Draw"
                            /\ UNCHANGED <<chat_history, turnError, escaped>>
                       ELSE FinishTurn(response, <<ev>>)
  /\ UNCHANGED <<enable_viz, turns, lastAsk, connVars, user_query, schema,
                 sqlPrompt, sql_query, attempt, sql_response, narrPrompt,
                 response, slept, execErrors, dbReply, execOutcome, genReply,
                 ranQueries>>

\* DataVisualizer.create_visualization and st.plotly_chart
Draw ==
  /\ pc = "Draw"
  /\ \E dfOk \in BOOLEAN, pxOk \in BOOLEAN :
       LET out == create_visualization(viz_config, dfOk, pxOk)
       IN  IF out = "ok"
             THEN FinishTurn(response, <<"draw_ok">>)
             ELSE HandlerExcept(out, <<"draw_fail">>)
  /\ UNCHANGED <<enable_viz, turns, lastAsk, connVars, turnLocals, slept,
                 execErrors, dbReply, execOutcome, genReply, ranQueries>>

Next ==
  \/ Connect
  \/ ToggleViz
  \/ Ask
  \/ ReadSchema
  \/ GenerateSQL
  \/ Execute
  \/ Summarize
  \/ Recommend
  \/ Draw

Spec == Init /\ [][Next]_vars

\* a step of the running turn: a collaborator call returns or fails
TurnStep ==
  \/ ReadSchema
  \/ GenerateSQL
  \/ Execute
  \/ Summarize
  \/ Recommend
  \/ Draw

\* every collaborator call of a running turn eventually returns or fails
LiveSpec == Init /\ [][Next]_vars /\ WF_vars(TurnStep)

\* ------------------------------------------ DatabaseManager called directly
\* The methods of DatabaseManager as any caller may use them, in any order
\* and without main()'s gate.  trace holds the calls' outcomes, escaped the
\* error the last call raised to its caller.
mgrFrame == <<chat_history, ss_db, enable_viz, sidebarError, pc, turns, lastAsk,
              user_query, sqlPrompt, sql_query, attempt, narrPrompt, response,
              viz_config, slept, execErrors, execOutcome, genReply, turnError>>

\* DatabaseManager.init_database
Call_init_database ==
  /\ Len(trace) < MaxCalls
  /\ \E h \in Handles, ok \in BOOLEAN :
       IF ok
         THEN /\ dbm_db' = h
              /\ trace' = Append(trace, "connect_ok")
              /\ escaped' = NoError
         ELSE /\ trace' = Append(trace, "connect_fail")
              /\ escaped' = ConnectionErrorMsg
              /\ UNCHANGED dbm_db
  /\ UNCHANGED <<mgrFrame, schema, sql_response, dbReply, ranQueries>>

\* DatabaseManager.get_schema
Call_get_schema ==
  /\ Len(trace) < MaxCalls
  /\ IF NotInitializedGuard(dbm_db)
       THEN /\ escaped' = NotInitialized
            /\ trace' = Append(trace, "not_initialized")
            /\ UNCHANGED schema
       ELSE \E ok \in BOOLEAN :
              IF ok
                THEN /\ schema' = SchemaOf(dbm_db)
                     /\ trace' = Append(trace, "schema_ok")
                     /\ escaped' = NoError
                ELSE /\ trace' = Append(trace, "schema_fail")
                     /\ escaped' = "OperationalError"
                     /\ UNCHANGED schema
  /\ UNCHANGED <<mgrFrame, dbm_db, sql_response, dbReply, ranQueries>>

\* DatabaseManager.execute_query
Call_execute_query ==
  /\ Len(trace) < MaxCalls
  /\ \E q \in SqlTexts :
       IF NotInitializedGuard(dbm_db)
         THEN /\ escaped' = NotInitialized
              /\ trace' = Append(trace, "not_initialized")
              /\ UNCHANGED <<sql_response, dbReply, ranQueries>>
         ELSE \E reply \in DbReplies :
                /\ dbReply' = reply
                /\ ranQueries' = Append(ranQueries, q)
                /\ sql_response' = IF reply.ok THEN reply.val ELSE sql_response
                /\ trace' = Append(trace, IF reply.ok THEN "run_ok" ELSE "run_fail")
                /\ escaped' = reply.err
  /\ UNCHANGED <<mgrFrame, dbm_db, schema>>

NextDb ==
  \/ Call_init_database
  \/ Call_get_schema
  \/ Call_execute_query

SpecDb == Init /\ [][NextDb]_vars

\* ============================================================== claims
RunEvents == {"run_ok", "run_fail"}
NarrEvents == {"narr_ok", "narr_fail"}
AdviseEvents == {"advise_fail", "advise_nonjson", "advise_json"}
DrawEvents == {"draw_ok", "draw_fail"}

CountIn(s, evs) == Cardinality({i \in 1..Len(s) : s[i] \in evs})
Occurs(evs) == \E i \in 1..Len(trace) : trace[i] \in evs
RoleCount(r) == Cardinality({i \in 1..Len(chat_history) : chat_history[i].role = r})
IsErrorTurn(m) == m.role = "ai" /\ Len(m.content) = 2 /\ m.content[1] = ErrPrefix
LastTurn == chat_history[Len(chat_history)]

\* C1: after N turns have been processed, whether each succeeded or failed
\* at any stage, the conversation holds the greeting plus 2N turns: N Human
\* turns and N further Assistant turns; while a turn is running only its
\* Assistant turn is still missing.
C1_TwoTurnsPerUserTurn ==
  /\ pc = "Idle" =>
       /\ Len(chat_history) = 1 + 2 * turns
       /\ RoleCount("human") = turns
       /\ RoleCount("ai") = 1 + turns
  /\ pc # "Idle" =>
       /\ Len(chat_history) = 2 * turns
       /\ RoleCount("human") = turns
       /\ RoleCount("ai") = turns

\* two turns processed, one ended by a failure and one by a narrative
C1_Witness ==
  /\ pc = "Idle"
  /\ turns = 2
  /\ IsErrorTurn(chat_history[3])
  /\ ~IsErrorTurn(chat_history[5])

\* the execution events of the turn, in order
ExecEvents == SelectSeq(trace, LAMBDA e : e \in RunEvents \cup {"sleep", "not_initialized"})

\* k failed attempts, each followed by one delay, then the successful one
FailThenSucceed(k) ==
  [i \in 1..(2 * k + 1) |->
     IF i = 2 * k + 1 THEN "run_ok" ELSE IF i % 2 = 1 THEN "run_fail" ELSE "sleep"]

\* C2: when execution fails k times (k = 0, 1, 2) and then succeeds, the
\* execution step returns the result of the successful attempt, the database
\* collaborator was invoked exactly k+1 times and the fixed delay was taken
\* exactly once between each two consecutive attempts.
C2_RetryThenSuccess ==
  execOutcome.kind = "returned" =>
    LET k == Len(execErrors)
    IN  /\ k \in 0..(MAX_RETRIES - 1)
        /\ dbReply.ok
        /\ sql_response = dbReply.val
        /\ sql_response # NoResult
        /\ CountIn(trace, RunEvents) = k + 1
        /\ ExecEvents = FailThenSucceed(k)
        /\ slept = k * RETRY_DELAY

\* two failures, then a success
C2_Witness ==
  /\ execOutcome.kind = "returned"
  /\ Len(execErrors) = 2
  /\ ExecEvents = <<"run_fail", "sleep", "run_fail", "sleep", "run_ok">>

\* C3: when all MAX_RETRIES execution attempts fail, the execution step
\* raises the error of the last attempt to its caller, there is no further
\* attempt, and no result is produced.
C3_RaiseAfterLastAttempt ==
  /\ CountIn(trace, RunEvents) <= MAX_RETRIES
  /\ Len(execErrors) >= MAX_RETRIES =>
       /\ CountIn(trace, RunEvents) = MAX_RETRIES
       /\ Count(trace, "run_fail") = MAX_RETRIES
       /\ execOutcome = [kind |-> "raised", err |-> execErrors[MAX_RETRIES]]
       /\ execOutcome.err = dbReply.err
       /\ turnError = execOutcome.err
       /\ sql_response = NoResult
       /\ pc = "Idle"

\* three failures whose last error differs from the first
C3_Witness ==
  /\ Len(execErrors) = MAX_RETRIES
  /\ execErrors[1] # execErrors[MAX_RETRIES]
  /\ execOutcome.kind = "raised"

\* the turn failed at SQL generation (schema read or text generation) or at
\* execution (retries exhausted)
FailedEarly ==
  \/ Occurs({"schema_fail", "gen_fail"})
  \/ execOutcome.kind = "raised"

\* C4: a failure at the SQL-generation stage or at the execution stage ends
\* the turn: the narrative and visualization stages are not invoked, exactly
\* one Assistant turn, with error-describing content, is appended after the
\* question, and no error leaves main().
C4_EarlyFailureAborts ==
  FailedEarly =>
    /\ pc = "Idle"
    /\ ~Occurs(NarrEvents \cup AdviseEvents \cup DrawEvents)
    /\ turnError # NoError
    /\ LastTurn = ErrorTurn(turnError)
    /\ chat_history[Len(chat_history) - 1] = HumanMessage(user_query)
    /\ Count(trace, "ai_error") = 1
    /\ Count(trace, "ai") = 0
    /\ Len(chat_history) = 1 + 2 * turns
    /\ escaped = NoError

\* a turn that failed at text generation, or at execution
C4_Witness ==
  /\ FailedEarly
  /\ turnError \in {GenerationError, "QueryError"}
  /\ IsErrorTurn(LastTurn)

\* the run of main() that just ended was given a question the gate refused
RefusedAskRan == pc = "Idle" /\ user_query # None /\ trace = <<>>

\* C5 as stated: a question asked with no connection established ends in
\* the not-connected error being raised or reported.
C5_Original ==
  (RefusedAskRan /\ ss_db = NoDb) =>
    (escaped = NotInitialized \/ turnError = NotInitialized)

\* C5 (amended): a question asked with no connection established is skipped
\* silently: no error is raised or reported, the conversation is unchanged
\* (no Human turn, no Assistant turn) and no pipeline stage is invoked.
C5_SilentSkip ==
  [][(pc = "Idle" /\ ss_db = NoDb /\ user_query' # None) =>
       /\ chat_history' = chat_history
       /\ turns' = turns
       /\ pc' = "Idle"
       /\ trace' = <<>>
       /\ turnError' = NoError
       /\ escaped' = NoError
       /\ ~lastAsk'.admitted]_vars

\* a question was refused while no connection existed
C5_Witness ==
  /\ RefusedAskRan
  /\ ss_db = NoDb
  /\ dbm_db = NoDb
  /\ ~lastAsk.admitted
  /\ lastAsk.question = user_query

\* C6 as stated: once the narrative stage has returned, the Assistant turn
\* appended at the end of the turn carries exactly that narrative and the
\* turn does not fail, whatever happens while the chart is recommended or
\* drawn.
C6_Original ==
  (pc = "Idle" /\ Occurs(NarrEvents)) =>
    /\ LastTurn = AIMessage(response)
    /\ turnError = NoError

\* C7 as stated: when the text-generation collaborator fails at the
\* narrative stage, the narrative is the formatted error string, the turn
\* does not fail, and that string is appended as its single Assistant turn.
C7_Original ==
  (pc = "Idle" /\ Occurs({"narr_fail"})) =>
    /\ response = <<NarrErrPrefix, GenerationError>>
    /\ turnError = NoError
    /\ LastTurn = AIMessage(response)

\* C8: when the text-generation collaborator fails, or answers with text
\* that is not JSON, to the chart request, the recommendation is "absent"
\* (None) and no error reaches the caller: the turn ends with its narrative.
C8_AdvisorFailureIsAbsent ==
  Occurs({"advise_fail", "advise_nonjson"}) =>
    /\ viz_config = JNull
    /\ ~Truthy(viz_config)
    /\ turnError = NoError
    /\ escaped = NoError
    /\ ~Occurs(DrawEvents)
    /\ pc = "Idle"
    /\ LastTurn = AIMessage(response)

\* the collaborator failed on the chart request
C8_Witness ==
  /\ Occurs({"advise_fail"})
  /\ viz_config = JNull
  /\ Count(trace, "ai") = 1

\* C9: the advisor is invoked in a turn only if visualization is enabled
\* and the execution result is a list or a dict, and at most once; with a
\* scalar result or with visualization disabled it is not invoked and the
\* turn ends right after the narrative.
C9_AdvisorOnlyWhenQualified ==
  /\ CountIn(trace, AdviseEvents) <= 1
  /\ Occurs(AdviseEvents) => (enable_viz /\ IsComposite(sql_response))
  /\ pc \in {"Recommend", "Draw"} => (enable_viz /\ IsComposite(sql_response))
  /\ (Occurs(NarrEvents) /\ ~(enable_viz /\ IsComposite(sql_response))) =>
       (pc = "Idle" /\ CountIn(trace, AdviseEvents) = 0 /\ ~Occurs(DrawEvents))

\* a turn with visualization enabled and a scalar result ended with its
\* narrative and without the advisor
C9_Witness ==
  /\ enable_viz
  /\ sql_response.shape = "str"
  /\ Occurs(NarrEvents)
  /\ Count(trace, "ai") = 1
  /\ CountIn(trace, AdviseEvents) = 0

\* every event of evs in the trace has an event of before earlier in it
Precedes(before, evs) ==
  \A i \in 1..Len(trace) :
    trace[i] \in evs => \E j \in 1..(i - 1) : trace[j] \in before

\* C10: within a turn the stages come in the order GeneratingSQL,
\* Executing, Summarizing, (RecommendingViz), Appended: no execution attempt
\* before SQL generation returned, no narrative before an execution attempt
\* succeeded, no advisor call before the narrative returned, and a turn that
\* ends with its narrative went through every stage but, possibly, the
\* recommendation.
C10_StagesInOrder ==
  /\ Precedes({"human"}, {"schema_ok", "schema_fail"})
  /\ Precedes({"schema_ok"}, {"gen_ok", "gen_fail"})
  /\ Precedes({"gen_ok"}, RunEvents \cup {"not_initialized"})
  /\ Precedes({"run_ok"}, NarrEvents)
  /\ Precedes(NarrEvents, AdviseEvents)
  /\ Precedes(AdviseEvents, DrawEvents)
  /\ Precedes(NarrEvents, {"ai"})
  /\ pc = "GenerateSQL" => Occurs({"schema_ok"}) /\ schema # None
  /\ pc = "Execute" => Occurs({"gen_ok"}) /\ sql_query # None
  /\ pc = "Summarize" => Occurs({"run_ok"}) /\ sql_response # NoResult
  /\ pc = "Recommend" => Occurs(NarrEvents) /\ response # None
  /\ pc = "Draw" => Occurs(AdviseEvents)
  /\ Occurs({"ai"}) =>
       /\ pc = "Idle"
       /\ trace[Len(trace)] = "ai"
       /\ Count(trace, "schema_ok") = 1
       /\ Count(trace, "gen_ok") = 1
       /\ Count(trace, "run_ok") = 1
       /\ CountIn(trace, NarrEvents) = 1
       /\ SelectSeq(trace, LAMBDA e : e \in {"human", "schema_ok", "gen_ok", "run_ok"}
                                        \cup NarrEvents \cup {"ai"})
            \in { <<"human", "schema_ok", "gen_ok", "run_ok", n, "ai">> : n \in NarrEvents }

\* a turn that went through every stage, the recommendation included
C10_Witness ==
  /\ pc = "Idle"
  /\ Occurs({"ai"})
  /\ Occurs({"run_fail"})
  /\ Occurs(AdviseEvents)
  /\ Occurs({"draw_ok"})

IsPrefix(a, b) == Len(a) <= Len(b) /\ SubSeq(b, 1, Len(a)) = a

\* C11: the conversation is append-only: every step (a turn's steps, a
\* failed turn, Connect, a settings change, the session initialization of a
\* later run) leaves the turns already in the log in place and unmodified,
\* so every earlier value of the log is a prefix of every later one.
C11_AppendOnly ==
  [][IsPrefix(chat_history, chat_history')]_vars

\* two turns are in the log and a later run (Connect or a settings change)
\* has initialized the session again
C11_Witness ==
  /\ pc = "Idle"
  /\ Len(chat_history) = 5
  /\ user_query = None
  /\ trace = <<>>

\* C12 as stated: on a turn where generation and execution succeed, the
\* narrative stage receives exactly the SQL text the generation collaborator
\* returned and exactly the result of the successful attempt, and the last
\* turn of the conversation at the end of the turn is an Assistant turn
\* carrying the narrative stage's output.
C12_Original ==
  (pc = "Idle" /\ Occurs({"run_ok"}) /\ Occurs(NarrEvents)) =>
    /\ narrPrompt.sql_query = genReply
    /\ narrPrompt.sql_response = dbReply.val
    /\ LastTurn.role = "ai"
    /\ LastTurn.content = response

GenEvents == {"gen_ok", "gen_fail"}

\* C16: within a turn the SQL-generation collaborator is called exactly
\* once, and every execution attempt is given the very text that call
\* returned, unmodified (surrounding whitespace included); a query that
\* fails every time uses up all MAX_RETRIES attempts with that same text
\* and is not generated again.
C16_SameTextEveryAttempt ==
  /\ CountIn(trace, GenEvents) <= 1
  /\ pc \in {"Execute", "Summarize", "Recommend", "Draw"} => Count(trace, "gen_ok") = 1
  /\ Len(ranQueries) = CountIn(trace, RunEvents)
  /\ ranQueries # <<>> => Count(trace, "gen_ok") = 1
  /\ \A i \in 1..Len(ranQueries) : ranQueries[i] = genReply
  /\ Len(execErrors) = MAX_RETRIES =>
       /\ Len(ranQueries) = MAX_RETRIES
       /\ CountIn(trace, GenEvents) = 1

\* a generated text with surrounding whitespace failed on every attempt
C16_Witness ==
  /\ Len(execErrors) = MAX_RETRIES
  /\ genReply = <<" ", "prose", " ">>
  /\ ranQueries = <<genReply, genReply, genReply>>

\* a parsed value of the fixed shape: one of the four chart kinds, both axis
\* fields and a title
WellShaped(v) ==
  /\ v.t = "object"
  /\ v.viz_type \in SUPPORTED_VISUALIZATIONS
  /\ v.x_column # Absent
  /\ v.y_column # Absent
  /\ v.title # Absent

\* C13 as stated: the recommendation is either absent or a config of the
\* fixed shape; an answer that parses to anything else yields absent and is
\* never handed to the chart renderer.
C13_Original ==
  /\ viz_config = JNull \/ WellShaped(viz_config)
  /\ (pc = "Draw" \/ Occurs(DrawEvents)) => WellShaped(viz_config)

CollaboratorCalls == {"schema_ok", "schema_fail", "run_ok", "run_fail"}

\* C14: with no connection established, get_schema and execute_query fail
\* with the not-initialized error and the database collaborator is not
\* called at all; that error is raised in no other case.
C14_NotInitializedWithoutCollaborator ==
  /\ dbm_db = NoDb =>
       /\ ~Occurs(CollaboratorCalls)
       /\ ranQueries = <<>>
       /\ dbReply = NoReply
       /\ schema = None
  /\ (trace # <<>> /\ trace[Len(trace)] = "not_initialized") =>
       (escaped = NotInitialized /\ dbm_db = NoDb)
  /\ escaped = NotInitialized => (dbm_db = NoDb /\ Occurs({"not_initialized"}))
  /\ Len(ranQueries) = CountIn(trace, RunEvents)

\* both operations were called with no connection and raised
C14_Witness ==
  /\ dbm_db = NoDb
  /\ Count(trace, "not_initialized") = 2
  /\ escaped = NotInitialized

\* C15: in every turn the number of inter-attempt delays is the number of
\* execution attempts minus one and at most 2, 4 time units in all: a delay
\* comes only right after a failed attempt that another attempt follows,
\* never before the first attempt, after a success or after the last
\* failure.
C15_DelaysBetweenAttempts ==
  LET runs == CountIn(trace, RunEvents)
      sleeps == Count(trace, "sleep")
  IN  /\ sleeps <= MAX_RETRIES - 1
      /\ sleeps <= 2
      /\ slept = sleeps * RETRY_DELAY
      /\ slept <= 4
      /\ pc = "Execute" => sleeps = runs
      /\ (pc # "Execute" /\ runs > 0) => sleeps = runs - 1
      /\ runs = 0 => sleeps = 0
      /\ \A i \in 1..Len(trace) :
           trace[i] = "sleep" =>
             /\ i > 1 /\ trace[i - 1] = "run_fail"
             /\ i < Len(trace) => trace[i + 1] \in RunEvents
             /\ i = Len(trace) => pc = "Execute"

\* three failed attempts: two delays, none after the last failure
C15_Witness ==
  /\ execOutcome.kind = "raised"
  /\ CountIn(trace, RunEvents) = MAX_RETRIES
  /\ Count(trace, "sleep") = 2
  /\ slept = 4

\* the turn has ended: its narrative or its error turn was appended last
TurnEnded ==
  /\ pc = "Idle"
  /\ trace # <<>>
  /\ trace[Len(trace)] \in {"ai", "ai_error"}

\* C17: every turn that begins ends, with its narrative appended or with
\* its error turn, provided each collaborator call eventually returns or
\* fails: the retry loop does not run forever and no state of a turn is
\* stuck.
C17_TurnTerminates ==
  (pc # "Idle") ~> TurnEnded

\* a turn ended after using every attempt of the retry loop
C17_Witness ==
  /\ TurnEnded
  /\ CountIn(trace, RunEvents) = MAX_RETRIES

\* C18: the log starts with the one greeting Assistant turn and its roles
\* alternate Assistant, Human, Assistant, ...: when no turn is running it
\* ends with an Assistant turn (odd length), and while a turn is running the
\* only extra entry is the pending question at the end.
C18_RolesAlternate ==
  /\ chat_history[1] = Greeting
  /\ \A i \in 2..Len(chat_history) : chat_history[i] # Greeting
  /\ \A i \in 1..Len(chat_history) :
       chat_history[i].role = IF i % 2 = 1 THEN "ai" ELSE "human"
  /\ pc = "Idle" => (Len(chat_history) % 2 = 1 /\ LastTurn.role = "ai")
  /\ pc # "Idle" => (Len(chat_history) % 2 = 0 /\ LastTurn = HumanMessage(user_query))

\* the second question is pending after a first turn that failed
C18_Witness ==
  /\ pc # "Idle"
  /\ Len(chat_history) = 4
  /\ IsErrorTurn(chat_history[3])

\* C19: the session's "db" key is present exactly when the DatabaseManager
\* holds a handle, and it is that handle; a failed connect leaves both as
\* they were, a successful connect sets both to the new handle, nothing
\* clears them; so no step of a gated turn meets the not-initialized error.
C19_GateMatchesConnection ==
  /\ [](/\ ss_db = dbm_db
        /\ pc # "Idle" => dbm_db # NoDb
        /\ ~Occurs({"not_initialized"})
        /\ turnError # NotInitialized)
  /\ [][/\ sidebarError' = ConnectionErrorMsg => UNCHANGED <<dbm_db, ss_db>>
        /\ dbm_db' # dbm_db => (dbm_db' \in Handles /\ ss_db' = dbm_db' /\ pc = "Idle")
        /\ ss_db' # ss_db => (ss_db' \in Handles /\ ss_db' = dbm_db')]_vars

\* a reconnect failed while a connection was held, and the gate stays open
C19_Witness ==
  /\ sidebarError = ConnectionErrorMsg
  /\ dbm_db \in Handles
  /\ ss_db = dbm_db
  /\ turns = 1

PromptBuilt == sqlPrompt.question # None

\* C20: the Human turn of the question is appended before the SQL prompt is
\* built: the history in the prompt is the log up to and including that
\* Human turn, whose content is the question asked, and the Human turn stays
\* in the log, before the turn's Assistant turn, also when the turn fails.
C20_PromptEndsWithQuestion ==
  /\ PromptBuilt =>
       LET h == sqlPrompt.chat_history
       IN  /\ sqlPrompt.question = user_query
           /\ sqlPrompt.question = lastAsk.question
           /\ sqlPrompt.schema = schema
           /\ Len(h) = 2 * turns
           /\ h[Len(h)] = HumanMessage(user_query)
           /\ IsPrefix(h, chat_history)
  /\ (trace # <<>> /\ trace[1] = "human") =>
       /\ chat_history[2 * turns] = HumanMessage(user_query)
       /\ pc = "Idle" => Len(chat_history) = 2 * turns + 1

\* the second turn's prompt holds the question of the first, failed turn
\* and ends with its own question; the second turn failed as well
C20_Witness ==
  /\ PromptBuilt
  /\ turns = 2
  /\ pc = "Idle"
  /\ IsErrorTurn(chat_history[3])
  /\ IsErrorTurn(LastTurn)
  /\ sqlPrompt.chat_history[2].role = "human"
  /\ sqlPrompt.chat_history[2].content # user_query
  /\ sqlPrompt.chat_history[4] = HumanMessage(user_query)

====
